---- MODULE Spec2Model ----
(***************************************************************************)
(* UE4Workspace/object/socket.py: the socket operators of the add-on.      *)
(*                                                                         *)
(*   OP_AttachObject  attach / detach the active object to a socket        *)
(*   OP_CreateSocket  create a socket under the active object              *)
(*   OP_CopySocket    write the armature's bone sockets to the clipboard   *)
(*   OP_PasteSocket   create sockets from the engine text on the clipboard *)
(*                                                                         *)
(* Text is modelled character by character with TLA+ strings.  Numbers are *)
(* fixed point: a Python float is the integer count of hundredths it       *)
(* holds, an angle in radians is an integer count of pi/360.               *)
(***************************************************************************)
EXTENDS Integers, Sequences, FiniteSets, TLC

-----------------------------------------------------------------------------
(* Python str methods used by the operators                                *)

Whitespace == {" ", "\t", "\n", "\r"}

Char(s, i) == SubSeq(s, i, i)

RECURSIVE lstrip(_, _)
lstrip(s, chars) ==
    IF Len(s) > 0 /\ Char(s, 1) \in chars
    THEN lstrip(SubSeq(s, 2, Len(s)), chars)
    ELSE s

RECURSIVE rstrip(_, _)
rstrip(s, chars) ==
    IF Len(s) > 0 /\ Char(s, Len(s)) \in chars
    THEN rstrip(SubSeq(s, 1, Len(s) - 1), chars)
    ELSE s

\* str.strip(chars); str.strip() is strip(s, Whitespace)
strip(s, chars) == rstrip(lstrip(s, chars), chars)

startswith(s, prefix) ==
    Len(s) >= Len(prefix) /\ SubSeq(s, 1, Len(prefix)) = prefix

\* sub in s
contains(s, sub) ==
    \E i \in 1..(Len(s) - Len(sub) + 1) : SubSeq(s, i, i + Len(sub) - 1) = sub

\* position of the first c in s from position i on, 0 when there is none
find(s, c, i) ==
    LET hits == { j \in i..Len(s) : Char(s, j) = c } IN
    IF hits = {} THEN 0
    ELSE CHOOSE j \in hits : \A k \in hits : j <= k

\* str.split(sep) for a one-character sep
RECURSIVE split(_, _)
split(s, sep) ==
    LET i == find(s, sep, 1) IN
    IF i = 0 THEN <<s>>
    ELSE <<SubSeq(s, 1, i - 1)>> \o split(SubSeq(s, i + 1, Len(s)), sep)

\* str.split(sep, 1)
split1(s, sep) ==
    LET i == find(s, sep, 1) IN
    IF i = 0 THEN <<s>>
    ELSE <<SubSeq(s, 1, i - 1), SubSeq(s, i + 1, Len(s))>>

\* str.splitlines(): the text between one line break and the next, and no
\* line for the text after the last line break
splitlines(s) ==
    LET breaks == { i \in 1..Len(s) : Char(s, i) = "\n" }
        last   == Cardinality(breaks)
        \* the k-th line break, 0 for k = 0
        break(k) == IF k = 0 THEN 0
                    ELSE CHOOSE i \in breaks :
                             Cardinality({ j \in breaks : j < i }) = k - 1
        count  == IF Len(s) = 0 \/ Len(s) \in breaks THEN last ELSE last + 1
    IN  [k \in 1..count |->
            SubSeq(s, break(k - 1) + 1,
                   IF k <= last THEN break(k) - 1 ELSE Len(s))]

-----------------------------------------------------------------------------
(* Numbers and their text                                                  *)

Digits == "0123456789"

\* value of a digit character, -1 for any other character
DigitVal(c) == find(Digits, c, 1) - 1

RECURSIVE IsDigits(_)
IsDigits(s) ==
    Len(s) = 0 \/ (DigitVal(Char(s, 1)) >= 0 /\ IsDigits(SubSeq(s, 2, Len(s))))

RECURSIVE DigitsVal(_, _)
DigitsVal(s, acc) ==
    IF Len(s) = 0 THEN acc
    ELSE DigitsVal(SubSeq(s, 2, Len(s)), acc * 10 + DigitVal(Char(s, 1)))

Abs(n) == IF n < 0 THEN -n ELSE n

\* "{}".format(int)
RECURSIVE NatStr(_)
NatStr(n) ==
    IF n < 10 THEN Char(Digits, n + 1)
    ELSE NatStr(n \div 10) \o Char(Digits, (n % 10) + 1)

\* "{}".format(float): the shortest text that float() reads back, such as
\* "-1.5", "0.01" or "2.0"
FloatStr(v) ==
    LET frac == Abs(v) % 100 IN
    (IF v < 0 THEN "-" ELSE "") \o NatStr(Abs(v) \div 100) \o "."
        \o Char(Digits, (frac \div 10) + 1)
        \o (IF frac % 10 = 0 THEN "" ELSE Char(Digits, (frac % 10) + 1))

\* the value of the digits ip before and fp after the point, to two decimals
float_magnitude(ip, fp) ==
    DigitsVal(ip, 0) * 100
        + (IF Len(fp) > 0 THEN DigitVal(Char(fp, 1)) * 10 ELSE 0)
        + (IF Len(fp) > 1 THEN DigitVal(Char(fp, 2)) ELSE 0)

\* the number of sign neg whose digits around the point are parts
float_parts(neg, parts) ==
    IF /\ IsDigits(parts[1])
       /\ Len(parts) = 2 => IsDigits(parts[2])
       /\ Len(parts[1]) + (IF Len(parts) = 2 THEN Len(parts[2]) ELSE 0) > 0
    THEN [ok |-> TRUE,
          val |-> (IF neg THEN -1 ELSE 1)
                    * float_magnitude(parts[1],
                                      IF Len(parts) = 2 THEN parts[2] ELSE "")]
    ELSE [ok |-> FALSE, val |-> 0]

\* the number written in t, a text without blanks around it
float_stripped(t) ==
    float_parts(Len(t) > 0 /\ Char(t, 1) = "-",
                split1(IF Len(t) > 0 /\ Char(t, 1) \in {"-", "+"}
                       THEN SubSeq(t, 2, Len(t)) ELSE t, "."))

\* float(text): surrounding blanks, a sign, digits, a point, digits; ok is
\* FALSE where float raises ValueError.  The value is kept to two decimals.
float(text) == float_stripped(strip(text, Whitespace))

\* math.degrees: an angle of r units of pi/360 is r/2 degrees
degrees(r) == r * 50

\* math.radians: hundredths of a degree to units of pi/360, an odd function
radians(d) == IF d >= 0 THEN d \div 50 ELSE -((-d) \div 50)

-----------------------------------------------------------------------------
(* Python dict                                                             *)

\* dict.update
update(d, e) ==
    [k \in DOMAIN d \cup DOMAIN e |-> IF k \in DOMAIN e THEN e[k] ELSE d[k]]

\* dict(pairs): a later pair replaces an earlier one with the same key
dict(pairs) ==
    [k \in {pairs[i][1] : i \in DOMAIN pairs} |->
        LET last == CHOOSE i \in DOMAIN pairs :
                       /\ pairs[i][1] = k
                       /\ \A j \in DOMAIN pairs : j > i => pairs[j][1] # k
        IN  pairs[last][2]]

EmptyDict == [k \in {} |-> ""]

-----------------------------------------------------------------------------
(* class SocketObject                                                      *)

\* SocketObject._temp_dict as the class statement leaves it
TempDictDefault ==
    ("SocketName" :> "Socket") @@
    ("BoneName" :> "Bone") @@
    ("RelativeLocation" :> "X=0.0,Y=0.0,Z=0.0") @@
    ("RelativeRotation" :> "Pitch=0.0,Yaw=0.0,Roll=0.0") @@
    ("RelativeScale" :> "X=1.0,Y=1.0,Z=1.0")

\* float(val) for the parts of a compound field that split in two at '='
serialize_values(kv) ==
    [i \in DOMAIN kv |->
        IF Len(kv[i]) = 2 THEN float(kv[i][2]) ELSE [ok |-> FALSE, val |-> 0]]

\* the dict comprehension over the pairs kv with the numbers vals
serialize_dict(kv, vals) ==
    IF \E i \in DOMAIN kv : ~vals[i].ok
    THEN [err |-> "ValueError", value |-> EmptyDict]
    ELSE [err |-> "none",
          value |-> dict([i \in DOMAIN kv |-> <<kv[i][1], vals[i].val>>])]

\* temp_string.strip().split('=', 1) for each temp_string
serialize_pairs(temp) ==
    [i \in DOMAIN temp |-> split1(strip(temp[i], Whitespace), "=")]

\* the dict of the pairs kv
serialize_kv(kv) == serialize_dict(kv, serialize_values(kv))

\* serialize(key) inside update_transform, applied to _temp_dict[key]:
\* "X=1.0,Y=2.0" becomes {X: 1.0, Y: 2.0}.  A part without '=' fails the
\* unpacking and a value float() rejects fails the conversion (ValueError).
serialize(value) == serialize_kv(serialize_pairs(split(value, ",")))

\* self.RelativeLocation['Y'] *= -1
flip_location(location) == [location EXCEPT !["Y"] = -@]

\* a conversion that leaves the yaw as the engine has it
flip_rotation_pitch_only(rotation) == [rotation EXCEPT !["Pitch"] = -@]

\* self.RelativeRotation['Pitch'] *= -1; self.RelativeRotation['Yaw'] *= -1
flip_rotation(rotation) == [rotation EXCEPT !["Pitch"] = -@, !["Yaw"] = -@]

\* update_transform once the three fields are serialized
transform(loc, rot, scl) ==
    IF loc.err # "none" \/ rot.err # "none" \/ scl.err # "none"
    THEN [err |-> "ValueError", RelativeLocation |-> EmptyDict,
          RelativeRotation |-> EmptyDict, RelativeScale |-> EmptyDict]
    ELSE IF \/ "Y" \notin DOMAIN loc.value
            \/ "Pitch" \notin DOMAIN rot.value
            \/ "Yaw" \notin DOMAIN rot.value
    THEN [err |-> "KeyError", RelativeLocation |-> EmptyDict,
          RelativeRotation |-> EmptyDict, RelativeScale |-> EmptyDict]
    ELSE [err |-> "none",
          RelativeLocation |-> flip_location(loc.value),
          RelativeRotation |-> flip_rotation(rot.value),
          RelativeScale |-> scl.value]

\* SocketObject.update_transform over the class dictionary temp_dict
update_transform(temp_dict) ==
    transform(serialize(temp_dict["RelativeLocation"]),
              serialize(temp_dict["RelativeRotation"]),
              serialize(temp_dict["RelativeScale"]))

\* the outcome of __init__ with the class dictionary updated and the
\* transform t
instance(updated, t) ==
    [err |-> t.err,
     temp_dict |-> updated,
     self |-> [SocketName |-> updated["SocketName"],
               BoneName |-> updated["BoneName"],
               RelativeLocation |-> t.RelativeLocation,
               RelativeRotation |-> t.RelativeRotation,
               RelativeScale |-> t.RelativeScale]]

\* __init__ after self._temp_dict.update(bone)
init_updated(updated) == instance(updated, update_transform(updated))

\* SocketObject(**bone): the class dictionary after the call, the exception
\* raised if any, and the attributes of the new instance
SocketObject(temp_dict, bone) == init_updated(update(temp_dict, bone))

-----------------------------------------------------------------------------
(* OP_PasteSocket.execute, its pure part                                   *)

BeginMarker == "Begin Object Class=/Script/Engine.SkeletalMeshSocket"

BeginPrefix ==
    "Begin Object Class=/Script/Engine.SkeletalMeshSocket Name=\"SkeletalMeshSocket_"

EndMarker == "End Object"

\* the guard of the parsing branch
is_socket_buffer(clipboard) ==
    /\ Len(clipboard) > 0
    /\ contains(clipboard, BeginMarker)
    /\ contains(clipboard, EndMarker)

\* the indices of the lines that open a block, in increasing order
begin_indices(clipboard_list) ==
    SelectSeq([i \in 1..Len(clipboard_list) |-> i],
              LAMBDA i : startswith(strip(clipboard_list[i], Whitespace),
                                    BeginPrefix))

\* key, value = string.strip().split('=', 1) and the assignment to
\* socket_dict, for the pair kv
read_line(socket_dict, kv) ==
    update(socket_dict, kv[1] :> strip(strip(kv[2], {"\""}), {"(", ")"}))

\* the while loop: read lines from index_loop on into socket_dict up to the
\* first line that starts with 'End Object'
RECURSIVE read_block(_, _, _)

\* one turn of the while loop on the stripped line string
read_string(clipboard_list, index_loop, socket_dict, string) ==
    IF startswith(string, EndMarker)
    THEN [err |-> "none", socket_dict |-> socket_dict]
    ELSE IF find(string, "=", 1) = 0
    THEN [err |-> "ValueError", socket_dict |-> socket_dict]
    ELSE read_block(clipboard_list, index_loop + 1,
                    read_line(socket_dict, split1(string, "=")))

read_block(clipboard_list, index_loop, socket_dict) ==
    IF index_loop > Len(clipboard_list)
    THEN [err |-> "IndexError", socket_dict |-> socket_dict]
    ELSE read_string(clipboard_list, index_loop, socket_dict,
                     strip(clipboard_list[index_loop], Whitespace))

\* the for loop over the blocks; acc is the state of the call so far
RECURSIVE parse_blocks(_, _, _)

\* the state of the call after socket_objects.append(SocketObject(...))
parse_append(acc, socket_dict, obj) ==
    [fault |-> obj.err,
     temp_dict |-> obj.temp_dict,
     socket_dicts |-> Append(acc.socket_dicts, socket_dict),
     socket_objects |-> IF obj.err = "none"
                        THEN Append(acc.socket_objects, obj.self)
                        ELSE acc.socket_objects]

\* one turn of the for loop once the while loop has read the block blk
parse_block(clipboard_list, indices, acc, blk) ==
    IF blk.err # "none"
    THEN [acc EXCEPT !.fault = blk.err]
    ELSE parse_blocks(clipboard_list, Tail(indices),
             parse_append(acc, blk.socket_dict,
                          SocketObject(acc.temp_dict, blk.socket_dict)))

parse_blocks(clipboard_list, indices, acc) ==
    IF Len(indices) = 0 \/ acc.fault # "none" THEN acc
    ELSE parse_block(clipboard_list, indices, acc,
                     read_block(clipboard_list, Head(indices) + 1, EmptyDict))

\* the translation and the XYZ Euler rotation, relative to the bone, of the
\* matrix built for a record
socket_location(socket_object) ==
    [x |-> socket_object.RelativeLocation["X"],
     y |-> socket_object.RelativeLocation["Y"],
     z |-> socket_object.RelativeLocation["Z"]]

socket_rotation(socket_object) ==
    [x |-> radians(socket_object.RelativeRotation["Roll"]),
     y |-> radians(socket_object.RelativeRotation["Pitch"]),
     z |-> radians(socket_object.RelativeRotation["Yaw"])]

\* RelativeScale * (active_object.scale / 0.01), per axis
socket_scale(socket_object, armature_scale) ==
    [x |-> (socket_object.RelativeScale["X"] * (armature_scale.x * 100)) \div 100,
     y |-> (socket_object.RelativeScale["Y"] * (armature_scale.y * 100)) \div 100,
     z |-> (socket_object.RelativeScale["Z"] * (armature_scale.z * 100)) \div 100]

\* the object the second loop creates for a record whose bone exists
new_socket(socket_object, armature_scale) ==
    [name |-> socket_object.SocketName,
     type |-> "EMPTY",
     is_socket |-> TRUE,
     parent_type |-> "BONE",
     parent_bone |-> socket_object.BoneName,
     location |-> socket_location(socket_object),
     rotation_euler |-> socket_rotation(socket_object),
     scale |-> socket_scale(socket_object, armature_scale)]

\* the second loop: one object per record whose BoneName is a pose bone; a
\* component missing from a compound field raises KeyError
RECURSIVE create_sockets(_, _, _, _)
create_sockets(socket_objects, pose_bones, armature_scale, acc) ==
    IF Len(socket_objects) = 0 \/ acc.fault # "none" THEN acc
    ELSE LET socket_object == Head(socket_objects) IN
         IF socket_object.BoneName \notin pose_bones
         THEN create_sockets(Tail(socket_objects), pose_bones, armature_scale, acc)
         ELSE IF \/ ~({"X", "Z"} \subseteq DOMAIN socket_object.RelativeLocation)
                 \/ "Roll" \notin DOMAIN socket_object.RelativeRotation
                 \/ ~({"X", "Y", "Z"} \subseteq DOMAIN socket_object.RelativeScale)
         THEN [acc EXCEPT !.fault = "KeyError"]
         ELSE create_sockets(Tail(socket_objects), pose_bones, armature_scale,
                  [acc EXCEPT !.created =
                       Append(@, new_socket(socket_object, armature_scale))])

\* the first loop over the lines clipboard_list
parse_list(clipboard_list, start) ==
    parse_blocks(clipboard_list, begin_indices(clipboard_list), start)

\* the parsing branch: the state of the call after the first loop
parse(clipboard, temp_dict) ==
    IF is_socket_buffer(clipboard)
    THEN parse_list(splitlines(clipboard),
                    [fault |-> "none", temp_dict |-> temp_dict,
                     socket_dicts |-> <<>>, socket_objects |-> <<>>])
    ELSE [fault |-> "none", temp_dict |-> temp_dict,
          socket_dicts |-> <<>>, socket_objects |-> <<>>]

\* what the call leaves: parsed after the first loop, made after the second
paste_result(parsed, made) ==
    [fault |-> made.fault,
     temp_dict |-> parsed.temp_dict,
     socket_dicts |-> parsed.socket_dicts,
     socket_objects |-> parsed.socket_objects,
     created |-> made.created]

\* the second loop over the records of parsed
paste_parsed(parsed, pose_bones, armature_scale) ==
    paste_result(parsed,
                 create_sockets(parsed.socket_objects, pose_bones,
                                armature_scale,
                                [fault |-> parsed.fault, created |-> <<>>]))

\* the whole of execute as a function of what it reads
paste(clipboard, temp_dict, pose_bones, armature_scale) ==
    paste_parsed(parse(clipboard, temp_dict), pose_bones, armature_scale)

-----------------------------------------------------------------------------
(* OP_CopySocket.execute, its pure part                                    *)

\* the children of the armature that the list comprehension keeps
bone_sockets(children) ==
    SelectSeq(children,
              LAMBDA obj : /\ obj.type = "EMPTY"
                           /\ obj.is_socket
                           /\ obj.parent_type = "BONE"
                           /\ obj.parent_bone # "")

\* the first format call
copy_header(count) ==
    "SocketCopyPasteBuffer\n\nNumSockets=" \o NatStr(count) \o "\n\n"

\* the scale of the socket relative to the bone, from the decomposition of
\* (armature matrix @ bone matrix)^-1 @ socket matrix
socket_point_scale(socket_obj, armature_scale) ==
    [x |-> (socket_obj.scale.x * 100) \div armature_scale.x,
     y |-> (socket_obj.scale.y * 100) \div armature_scale.y,
     z |-> (socket_obj.scale.z * 100) \div armature_scale.z]

\* a location argument that keeps the tool's y
copy_location_unflipped(socket_obj) ==
    [x |-> socket_obj.location.x,
     y |-> socket_obj.location.y,
     z |-> socket_obj.location.z]

\* the location argument of the second format call
copy_location(socket_obj) ==
    [x |-> socket_obj.location.x,
     y |-> socket_obj.location.y * (-1),
     z |-> socket_obj.location.z]

\* the rotation argument of the second format call
copy_rotation(socket_obj) ==
    [x |-> degrees(socket_obj.rotation_euler.x),
     y |-> degrees(socket_obj.rotation_euler.y * (-1)),
     z |-> degrees(socket_obj.rotation_euler.z * (-1))]

\* the scale argument of the second format call
copy_scale(socket_obj, armature_scale) ==
    LET point == socket_point_scale(socket_obj, armature_scale) IN
    [x |-> point.x \div 100, y |-> point.y \div 100, z |-> point.z \div 100]

\* the second format call, for the socket at position index of the list
copy_block(index, socket_obj, armature_scale) ==
    LET location == copy_location(socket_obj)
        rotation == copy_rotation(socket_obj)
        scale    == copy_scale(socket_obj, armature_scale)
    IN  "IsOnSkeleton=1\n"
        \o "Begin Object Class=/Script/Engine.SkeletalMeshSocket Name=\"SkeletalMeshSocket_"
        \o NatStr(index) \o "\"\n"
        \o "SocketName=\"" \o socket_obj.name \o "\"\n"
        \o "BoneName=\"" \o socket_obj.parent_bone \o "\"\n"
        \o "RelativeLocation=(X=" \o FloatStr(location.x)
        \o ",Y=" \o FloatStr(location.y)
        \o ",Z=" \o FloatStr(location.z) \o ")\n"
        \o "RelativeRotation=(Pitch=" \o FloatStr(rotation.y)
        \o ",Yaw=" \o FloatStr(rotation.z)
        \o ",Roll=" \o FloatStr(rotation.x) \o ")\n"
        \o "RelativeScale=(X=" \o FloatStr(scale.x)
        \o ",Y=" \o FloatStr(scale.y)
        \o ",Z=" \o FloatStr(scale.z) \o ")\n"
        \o "End Object\n\n"

\* the for loop: enumerate(socket_bone_objects) from position index (0-based)
\* on; a socket whose parent_bone is no pose bone adds nothing
RECURSIVE copy_blocks(_, _, _, _)
copy_blocks(socket_bone_objects, index, pose_bones, armature_scale) ==
    IF index >= Len(socket_bone_objects) THEN ""
    ELSE LET socket_obj == socket_bone_objects[index + 1] IN
         (IF socket_obj.parent_bone \in pose_bones
          THEN copy_block(index, socket_obj, armature_scale)
          ELSE "")
         \o copy_blocks(socket_bone_objects, index + 1, pose_bones, armature_scale)

\* the text execute leaves on the clipboard
copy(children, pose_bones, armature_scale) ==
    LET socket_bone_objects == bone_sockets(children) IN
    copy_header(Len(socket_bone_objects))
        \o copy_blocks(socket_bone_objects, 0, pose_bones, armature_scale)

-----------------------------------------------------------------------------
(* The scene of the clipboard operators: one armature, the active object   *)
(* in object mode, its pose bones and its children.  A child carries its   *)
(* transform relative to its parent bone.                                  *)

VARIABLES
    pose_bones,          \* names of active_object.pose.bones
    armature_scale,      \* active_object.scale
    children,            \* active_object.children, in scene order
    clipboard,           \* context.window_manager.clipboard
    clip_src,            \* "copy" when OP_CopySocket wrote the clipboard
    temp_dict,           \* SocketObject._temp_dict, a class attribute
    last_op,             \* the operator that ran last
    fault,               \* the exception that ended the last paste, or "none"
    num_socket_pasted,   \* the count the last paste reported, -1: no report
    socket_dicts,        \* the socket_dict of each block of the last paste
    socket_objects,      \* socket_objects of the last paste
    created,             \* the objects the last paste created
    socket_bone_objects  \* socket_bone_objects of the copy that wrote the clipboard

socket_vars ==
    <<pose_bones, armature_scale, children, clipboard, clip_src, temp_dict,
      last_op, fault, num_socket_pasted, socket_dicts, socket_objects,
      created, socket_bone_objects>>

\* the most children the armature is let to have
MaxChildren == 3

\* the most children it starts with
MaxInitChildren == 2

Vec(a, b, c) == [x |-> a, y |-> b, z |-> c]

Socket(name, parent_type, parent_bone, location, rotation_euler, scale) ==
    [name |-> name, type |-> "EMPTY", is_socket |-> TRUE,
     parent_type |-> parent_type, parent_bone |-> parent_bone,
     location |-> location, rotation_euler |-> rotation_euler, scale |-> scale]

\* children an armature may have before any operator runs: sockets on a
\* bone, a socket whose name has quotes and parentheses at its ends, a
\* socket on a bone that was removed since, and the skinned mesh
SceneObjects ==
    { Socket("muzzle", "BONE", "hand", Vec(100, 250, -5), Vec(60, 90, -120),
             Vec(10000, 10000, 10000)),
      Socket("\"(grip)\"", "BONE", "(hand)", Vec(0, -100, 0), Vec(0, 0, 1),
             Vec(10000, 10000, 10000)),
      Socket("old", "BONE", "thumb", Vec(0, 0, 0), Vec(0, 0, 0),
             Vec(10000, 10000, 10000)),
      [name |-> "body", type |-> "MESH", is_socket |-> FALSE,
       parent_type |-> "OBJECT", parent_bone |-> "",
       location |-> Vec(0, 0, 0), rotation_euler |-> Vec(0, 0, 0),
       scale |-> Vec(100, 100, 100)] }

PoseBoneSets == { {"hand", "(hand)"}, {"hand", "Bone"} }

RECURSIVE SeqsUpTo(_, _)
SeqsUpTo(S, n) ==
    IF n = 0 THEN { <<>> }
    ELSE LET shorter == SeqsUpTo(S, n - 1) IN
         shorter \cup { Append(q, e) : q \in shorter, e \in S }

-----------------------------------------------------------------------------
(* Text that reaches the clipboard from outside the add-on                 *)

Begin(index) == BeginPrefix \o NatStr(index) \o "\"\n"

FullBlock(index, name, bone) ==
    "IsOnSkeleton=1\n" \o Begin(index)
    \o "SocketName=\"" \o name \o "\"\n"
    \o "BoneName=\"" \o bone \o "\"\n"
    \o "RelativeLocation=(X=1.5,Y=2.0,Z=-3.0)\n"
    \o "RelativeRotation=(Pitch=45.0,Yaw=60.0,Roll=30.0)\n"
    \o "RelativeScale=(X=2.0,Y=2.0,Z=2.0)\n"
    \o "End Object\n\n"

\* a block that leaves every field to its default
BareBlock(index) ==
    "IsOnSkeleton=1\n" \o Begin(index) \o "End Object\n\n"

WellFormedTexts ==
    { copy_header(1) \o FullBlock(0, "aim", "hand"),
      copy_header(1) \o FullBlock(0, "aim", "spine"),
      copy_header(1) \o BareBlock(0),
      copy_header(2) \o FullBlock(0, "aim", "hand") \o BareBlock(1) }

MalformedTexts ==
    { "",
      "unrelated text",
      \* a Begin line with no End Object line after it
      "End Object\n" \o Begin(0) \o "SocketName=\"aim\"\n",
      \* a line without '=' inside a block
      Begin(0) \o "SocketName=\"aim\"\n\nEnd Object\n",
      \* compound fields that lack a component
      Begin(0) \o "BoneName=\"hand\"\nRelativeLocation=(X=1.0,Y=2.0)\nEnd Object\n",
      Begin(0) \o "RelativeRotation=(Yaw=60.0,Roll=30.0)\nEnd Object\n" }

ClipboardTexts == WellFormedTexts \cup MalformedTexts

-----------------------------------------------------------------------------
(* The operators on the armature                                           *)

SocketInit ==
    /\ pose_bones \in PoseBoneSets
    /\ armature_scale = Vec(100, 100, 100)
    /\ children \in SeqsUpTo(SceneObjects, MaxInitChildren)
    /\ clipboard = ""
    /\ clip_src = "outside"
    /\ temp_dict = TempDictDefault
    /\ last_op = "none"
    /\ fault = "none"
    /\ num_socket_pasted = -1
    /\ socket_dicts = <<>>
    /\ socket_objects = <<>>
    /\ created = <<>>
    /\ socket_bone_objects = <<>>

\* what an operator that is not the paste leaves of the last paste: the
\* locals of a finished call are gone
NoPaste ==
    /\ fault' = "none"
    /\ num_socket_pasted' = -1
    /\ socket_dicts' = <<>>
    /\ socket_objects' = <<>>
    /\ created' = <<>>

\* the user copies text in another program
SetClipboard(text) ==
    /\ clipboard' = text
    /\ clip_src' = "outside"
    /\ socket_bone_objects' = <<>>
    /\ last_op' = "clipboard"
    /\ NoPaste
    /\ UNCHANGED <<pose_bones, armature_scale, children, temp_dict>>

\* OP_CreateSocket.execute on the armature: in pose or edit mode with an
\* active bone the socket hangs on that bone, otherwise on the object
CreateSocket(mode, bone, socket_name, location, rotation) ==
    LET is_armature == mode \in {"POSE", "EDIT_ARMATURE"}
        socket == IF is_armature /\ bone # ""
                  THEN Socket(socket_name, "BONE", bone, location, rotation,
                              Vec(100, 100, 100))
                  ELSE Socket(socket_name, "OBJECT", "", location, rotation,
                              Vec(100, 100, 100))
    IN  /\ Len(children) < MaxChildren
        /\ children' = Append(children, socket)
        /\ last_op' = "create"
        /\ NoPaste
        /\ UNCHANGED <<pose_bones, armature_scale, clipboard, clip_src,
                       temp_dict, socket_bone_objects>>

\* OP_CopySocket.execute
CopySocket ==
    /\ clipboard' = copy(children, pose_bones, armature_scale)
    /\ clip_src' = "copy"
    /\ socket_bone_objects' = bone_sockets(children)
    /\ last_op' = "copy"
    /\ NoPaste
    /\ UNCHANGED <<pose_bones, armature_scale, children, temp_dict>>

\* the state the paste leaves when its pure part yields r
PasteApply(r) ==
    /\ Len(children) + Len(r.created) <= MaxChildren
    /\ temp_dict' = r.temp_dict
    /\ socket_dicts' = r.socket_dicts
    /\ socket_objects' = r.socket_objects
    /\ created' = r.created
    /\ children' = children \o r.created
    /\ fault' = r.fault
    /\ num_socket_pasted' = IF r.fault = "none" THEN Len(r.created) ELSE -1
    /\ last_op' = "paste"
    /\ UNCHANGED <<pose_bones, armature_scale, clipboard, clip_src,
                   socket_bone_objects>>

\* OP_PasteSocket.execute; an exception leaves what was done before it and
\* skips the report
PasteSocket ==
    PasteApply(paste(clipboard, temp_dict, pose_bones, armature_scale))

-----------------------------------------------------------------------------
(* The scene of OP_AttachObject: objects with a parent, the attach_to      *)
(* pointer, the is_attach_to_object flag and a constraint stack            *)

VARIABLES
    objects,        \* bpy.data.objects: object id -> its fields
    active_object   \* context.active_object, None when nothing is active

attach_vars == <<objects, active_object>>

vars == <<socket_vars, attach_vars>>

None == 0

\* the number of objects in the scene
NumObjects == 3

ObjIds == 1..NumObjects

\* object 1 is a mesh, object 2 an armature, the others are sockets
ObjType(o) == IF o = 1 THEN "MESH" ELSE IF o = 2 THEN "ARMATURE" ELSE "EMPTY"

\* the objects from o up its parent chain, o included
RECURSIVE Ancestors(_, _, _)
Ancestors(parent, o, n) ==
    IF o = None \/ n = 0 THEN {}
    ELSE {o} \cup Ancestors(parent, parent[o], n - 1)

\* the parent maps of a scene: a socket hangs on the mesh or the armature
\* that was active when OP_CreateSocket made it, the mesh and the armature
\* have no parent or one another, and the host admits no cycle
Forests ==
    { parent \in [ObjIds -> ObjIds \cup {None}] :
        /\ \A o \in ObjIds :
              IF ObjType(o) = "EMPTY"
              THEN ObjType(parent[o]) \in {"ARMATURE", "MESH"} /\ parent[o] # None
              ELSE parent[o] = None \/ ObjType(parent[o]) \in {"ARMATURE", "MESH"}
        /\ \A o \in ObjIds : o \notin Ancestors(parent, parent[o], NumObjects) }

\* constraints an object may carry before any operator runs
InitialConstraints ==
    { <<>>, <<[name |-> "Track To", type |-> "TRACK_TO", target |-> None]>> }

AttachInit ==
    /\ \E parent \in Forests, stack \in InitialConstraints :
         objects = [o \in ObjIds |->
                      [type |-> ObjType(o),
                       is_socket |-> ObjType(o) = "EMPTY",
                       parent |-> parent[o],
                       attach_to |-> None,
                       is_attach_to_object |-> FALSE,
                       constraints |-> IF o = 1 THEN stack ELSE <<>>,
                       matrix_world |-> [location |-> o, rotation |-> o,
                                         scale |-> o]]]
    /\ active_object = None

\* the user makes o the active object, or none
SetActive(o) ==
    /\ active_object' = o
    /\ UNCHANGED objects

\* the poll of the attach_to pointer property (register)
attach_to_poll(obj) ==
    /\ objects[obj].type = "EMPTY"
    /\ objects[obj].is_socket
    /\ objects[obj].parent # active_object

\* the panel's 'Attach to' field: the user picks a socket the property's
\* poll admits, or clears the field; the row is enabled while detached
SetAttachTo(target) ==
    /\ active_object # None
    /\ ~objects[active_object].is_attach_to_object
    /\ IF target = None THEN TRUE ELSE attach_to_poll(target)
    /\ objects' = [objects EXCEPT ![active_object].attach_to = target]
    /\ UNCHANGED active_object

\* OP_AttachObject.poll
AttachPoll ==
    /\ active_object # None
    /\ objects[active_object].attach_to # None
    /\ objects[objects[active_object].attach_to].parent # active_object

\* the name the host gives a constraint renamed to name: names are unique
\* within the stack of an object
unique_name(name, stack) ==
    LET used == {stack[i].name : i \in DOMAIN stack} IN
    IF name \notin used THEN name
    ELSE IF (name \o ".001") \notin used THEN name \o ".001"
    ELSE name \o ".002"

\* a lookup that finds no constraint
constraints_get_none(stack, name) == 0

\* constraints.get(name): the position of the constraint called name, 0 for None
constraints_get(stack, name) ==
    IF \E i \in DOMAIN stack : stack[i].name = name
    THEN CHOOSE i \in DOMAIN stack :
            /\ stack[i].name = name
            /\ \A j \in DOMAIN stack : stack[j].name = name => i <= j
    ELSE 0

\* constraints.remove(the constraint at position i)
constraints_remove(stack, i) ==
    SubSeq(stack, 1, i - 1) \o SubSeq(stack, i + 1, Len(stack))

\* OP_AttachObject.execute, reached only when poll holds
AttachObject(snap) ==
    /\ AttachPoll
    /\ LET obj    == objects[active_object]
           socket == objects[obj.attach_to]
           is_attach_to_object == obj.is_attach_to_object
           found  == constraints_get(obj.constraints, "attach_to")
       IN  objects' = [objects EXCEPT ![active_object] =
             IF ~is_attach_to_object
             THEN [obj EXCEPT
                     !.is_attach_to_object = ~is_attach_to_object,
                     !.constraints =
                         Append(@, [name |-> unique_name("attach_to", @),
                                    type |-> "CHILD_OF",
                                    target |-> obj.attach_to]),
                     !.matrix_world =
                         IF snap
                         THEN [location |-> socket.matrix_world.location,
                               rotation |-> socket.matrix_world.rotation,
                               scale |-> @.scale]
                         ELSE @]
             ELSE [obj EXCEPT
                     !.is_attach_to_object = ~is_attach_to_object,
                     !.constraints =
                         IF found # 0 THEN constraints_remove(@, found) ELSE @]]
    /\ UNCHANGED active_object

-----------------------------------------------------------------------------
(* Specifications                                                          *)

\* the attach scene while the clipboard operators are studied
AttachIdle ==
    /\ objects = [o \in ObjIds |->
                    [type |-> ObjType(o), is_socket |-> ObjType(o) = "EMPTY",
                     parent |-> IF ObjType(o) = "EMPTY" THEN 2 ELSE None,
                     attach_to |-> None,
                     is_attach_to_object |-> FALSE, constraints |-> <<>>,
                     matrix_world |-> [location |-> o, rotation |-> o,
                                       scale |-> o]]]
    /\ active_object = None

\* the armature while the attach operator is studied
SocketIdle ==
    /\ pose_bones = {"hand"}
    /\ armature_scale = Vec(100, 100, 100)
    /\ children = <<>>
    /\ clipboard = ""
    /\ clip_src = "outside"
    /\ temp_dict = TempDictDefault
    /\ last_op = "none"
    /\ fault = "none"
    /\ num_socket_pasted = -1
    /\ socket_dicts = <<>>
    /\ socket_objects = <<>>
    /\ created = <<>>
    /\ socket_bone_objects = <<>>

\* pastes of text from outside the add-on into an armature without children
Init ==
    /\ SocketInit
    /\ children = <<>>
    /\ AttachIdle

Next ==
    \/ \E text \in ClipboardTexts : SetClipboard(text) /\ UNCHANGED attach_vars
    \/ PasteSocket /\ UNCHANGED attach_vars

Spec == Init /\ [][Next]_vars

\* create, copy and paste on an armature that has children
CopyInit == SocketInit /\ AttachIdle

CopyNext ==
    \/ \E mode \in {"OBJECT", "POSE"}, bone \in {"", "hand"} :
          /\ CreateSocket(mode, bone, "name_socket", Vec(0, 0, 0), Vec(0, 0, 0))
          /\ UNCHANGED attach_vars
    \/ CopySocket /\ UNCHANGED attach_vars
    \/ PasteSocket /\ UNCHANGED attach_vars

CopySpec == CopyInit /\ [][CopyNext]_vars

AttachSpecInit == AttachInit /\ SocketIdle

AttachNext ==
    \/ \E o \in ObjIds \cup {None} : SetActive(o) /\ UNCHANGED socket_vars
    \/ \E target \in ObjIds \cup {None} : SetAttachTo(target) /\ UNCHANGED socket_vars
    \/ \E snap \in BOOLEAN : AttachObject(snap) /\ UNCHANGED socket_vars

AttachSpec == AttachSpecInit /\ [][AttachNext]_vars

-----------------------------------------------------------------------------
(* Properties of the paste                                                 *)

\* C1: in the record parsed from a block, every field the block does not
\* carry has its documented default, whatever earlier blocks and earlier
\* pastes carried.
C1_AbsentFieldsTakeDefaults ==
    last_op = "paste" =>
        \A i \in DOMAIN socket_objects :
            LET d == socket_dicts[i]
                o == socket_objects[i]
            IN  /\ "SocketName" \notin DOMAIN d => o.SocketName = "Socket"
                /\ "BoneName" \notin DOMAIN d => o.BoneName = "Bone"
                /\ "RelativeLocation" \notin DOMAIN d =>
                       o.RelativeLocation = [X |-> 0, Y |-> 0, Z |-> 0]
                /\ "RelativeRotation" \notin DOMAIN d =>
                       o.RelativeRotation = [Pitch |-> 0, Yaw |-> 0, Roll |-> 0]
                /\ "RelativeScale" \notin DOMAIN d =>
                       o.RelativeScale = [X |-> 100, Y |-> 100, Z |-> 100]

\* C2: a paste of text that is not a well-formed socket buffer ends without
\* an exception, creates nothing and reports zero sockets.
C2_MalformedPasteIsNoError ==
    (last_op = "paste" /\ clipboard \in MalformedTexts) =>
        /\ fault = "none"
        /\ created = <<>>
        /\ num_socket_pasted = 0

\* the bone name C3 gives a block: its BoneName line, "Bone" without one
ClaimedBone(d) == IF "BoneName" \in DOMAIN d THEN d["BoneName"] ELSE "Bone"

\* C3: a paste of N well-formed blocks, M of them with a bone name that is
\* no bone of the armature, creates N - M sockets, reports N - M and raises
\* nothing.
C3_PasteCreatesMatchedBlocks ==
    (last_op = "paste" /\ clipboard \in WellFormedTexts) =>
        LET N == Len(begin_indices(splitlines(clipboard)))
            M == Cardinality({i \in DOMAIN socket_dicts :
                                 ClaimedBone(socket_dicts[i]) \notin pose_bones})
        IN  /\ fault = "none"
            /\ Len(socket_dicts) = N
            /\ Len(created) = N - M
            /\ num_socket_pasted = N - M

\* the engine values of a compound field of a block
EngineValues(d, field) == serialize(d[field]).value

\* position in socket_objects of the record the k-th created object is of
RECURSIVE MatchedIndex(_, _)
MatchedIndex(k, i) ==
    IF socket_objects[i].BoneName \in pose_bones
    THEN IF k = 1 THEN i ELSE MatchedIndex(k - 1, i + 1)
    ELSE MatchedIndex(k, i + 1)

\* C8: the socket created from a block with RelativeLocation (X,Y,Z) and
\* RelativeRotation (Pitch=p, Yaw=y, Roll=r) is placed relative to its bone
\* at (X, -Y, Z) with XYZ Euler rotation (radians(r), radians(-p),
\* radians(-y)).
C8_PasteTransform ==
    last_op = "paste" =>
        \A k \in DOMAIN created :
            LET d == socket_dicts[MatchedIndex(k, 1)] IN
            ("RelativeLocation" \in DOMAIN d /\ "RelativeRotation" \in DOMAIN d) =>
                LET L == EngineValues(d, "RelativeLocation")
                    R == EngineValues(d, "RelativeRotation")
                IN  /\ created[k].location =
                           [x |-> L["X"], y |-> -L["Y"], z |-> L["Z"]]
                    /\ created[k].rotation_euler =
                           [x |-> radians(R["Roll"]),
                            y |-> radians(-R["Pitch"]),
                            z |-> radians(-R["Yaw"])]

\* a paste created a socket from a block that carries a location with a
\* non-zero Y and a rotation with non-zero Pitch, Yaw and Roll
C8_Witness ==
    /\ last_op = "paste"
    /\ \E k \in DOMAIN created :
          LET d == socket_dicts[MatchedIndex(k, 1)] IN
          /\ "RelativeLocation" \in DOMAIN d
          /\ "RelativeRotation" \in DOMAIN d
          /\ EngineValues(d, "RelativeLocation")["Y"] # 0
          /\ EngineValues(d, "RelativeRotation")["Pitch"] # 0
          /\ EngineValues(d, "RelativeRotation")["Yaw"] # 0
          /\ EngineValues(d, "RelativeRotation")["Roll"] # 0

-----------------------------------------------------------------------------
(* Properties of the copy                                                  *)

\* the number the NumSockets line of a buffer carries
NumSocketsOf(text) ==
    LET line == splitlines(text)[3] IN
    DigitsVal(SubSeq(line, Len("NumSockets=") + 1, Len(line)), 0)

\* the lines of a buffer that open a block
BeginLinesOf(text) ==
    LET list == splitlines(text) IN
    [k \in DOMAIN begin_indices(list) |-> list[begin_indices(list)[k]]]

\* C4: in the text copy writes, NumSockets is the number of blocks.
C4_NumSocketsCountsBlocks ==
    clip_src = "copy" => NumSocketsOf(clipboard) = Len(BeginLinesOf(clipboard))

\* C5: in the text copy writes, the k blocks are named SkeletalMeshSocket_0
\* to SkeletalMeshSocket_(k-1) in order.
C5_BlockNamesSequential ==
    clip_src = "copy" =>
        \A k \in DOMAIN BeginLinesOf(clipboard) :
            BeginLinesOf(clipboard)[k] = BeginPrefix \o NatStr(k - 1) \o "\""

\* the sockets the copy that wrote the clipboard made a block of
Emitted ==
    SelectSeq(socket_bone_objects, LAMBDA obj : obj.parent_bone \in pose_bones)

\* C6: the record parsed from the block copy writes for a socket has the
\* socket's location and XYZ Euler rotation relative to the bone.
C6_TransformRoundTrip ==
    (last_op = "paste" /\ clip_src = "copy") =>
        /\ fault = "none"
        /\ Len(socket_objects) = Len(Emitted)
        /\ \A i \in DOMAIN socket_objects :
              /\ socket_location(socket_objects[i]) = Emitted[i].location
              /\ socket_rotation(socket_objects[i]) = Emitted[i].rotation_euler

\* a paste parsed the block of a socket with non-zero y location and
\* non-zero rotation about every axis
C6_Witness ==
    /\ last_op = "paste"
    /\ clip_src = "copy"
    /\ \E i \in DOMAIN socket_objects :
          /\ i \in DOMAIN Emitted
          /\ Emitted[i].location.y # 0
          /\ Emitted[i].rotation_euler.x # 0
          /\ Emitted[i].rotation_euler.y # 0
          /\ Emitted[i].rotation_euler.z # 0

\* C10: the record parsed from the block copy writes for a socket has the
\* socket's name and parent bone name, character for character.
C10_NameRoundTrip ==
    (last_op = "paste" /\ clip_src = "copy") =>
        /\ Len(socket_objects) = Len(Emitted)
        /\ \A i \in DOMAIN socket_objects :
              /\ socket_objects[i].SocketName = Emitted[i].name
              /\ socket_objects[i].BoneName = Emitted[i].parent_bone

-----------------------------------------------------------------------------
(* Properties of the attach                                                *)

ParentOf == [o \in ObjIds |-> objects[o].parent]

\* socket hangs below obj: obj is on the parent chain of socket
DescendsFrom(socket, obj) ==
    obj \in Ancestors(ParentOf, objects[socket].parent, NumObjects)

AttachConstraints(o) ==
    {i \in DOMAIN objects[o].constraints :
        objects[o].constraints[i].name = "attach_to"}

\* C7: the attach operator is unavailable without an active object, without
\* a target and when the target descends from the active object at any
\* depth; no object is attached to a socket that descends from it.
C7_NoCyclicAttach ==
    /\ AttachPoll =>
          /\ active_object # None
          /\ objects[active_object].attach_to # None
          /\ ~DescendsFrom(objects[active_object].attach_to, active_object)
    /\ \A o \in ObjIds : \A i \in AttachConstraints(o) :
          ~DescendsFrom(objects[o].constraints[i].target, o)

\* C9: an object is flagged attached exactly when it holds one constraint
\* named 'attach_to', and never holds two; that constraint targets the
\* object's attach_to.
C9_FlagMatchesConstraint ==
    \A o \in ObjIds :
        /\ Cardinality(AttachConstraints(o)) <= 1
        /\ objects[o].is_attach_to_object <=> AttachConstraints(o) # {}
        /\ \A i \in AttachConstraints(o) :
              /\ objects[o].constraints[i].type = "CHILD_OF"
              /\ objects[o].constraints[i].target = objects[o].attach_to

\* C9: a step that changes the flag of an object is an attach that appends
\* the constraint to the stack or a detach that takes it out of the stack.
C9_ToggleStep ==
    \A o \in ObjIds :
        LET before == objects[o]
            after  == objects'[o]
        IN  before.is_attach_to_object # after.is_attach_to_object =>
              IF after.is_attach_to_object
              THEN after.constraints =
                       Append(before.constraints,
                              [name |-> "attach_to", type |-> "CHILD_OF",
                               target |-> before.attach_to])
              ELSE /\ Len(after.constraints) = Len(before.constraints) - 1
                   /\ \A i \in DOMAIN after.constraints :
                          after.constraints[i].name # "attach_to"

C9_AttachToggle == []C9_FlagMatchesConstraint /\ [][C9_ToggleStep]_vars

\* an object that carries a constraint of its own was attached with snap and
\* detached again: it sits where the socket is, its own constraint is still
\* on it and the attach_to constraint is gone
C9_Witness ==
    \E o \in ObjIds :
        /\ objects[o].attach_to # None
        /\ ~objects[o].is_attach_to_object
        /\ objects[o].matrix_world.location = objects[o].attach_to
        /\ objects[o].attach_to # o
        /\ Len(objects[o].constraints) = 1
        /\ AttachConstraints(o) = {}

====
